---- MODULE Spec2Model ----
(***************************************************************************)
(* PNGMe chunk codec: ChunkType (src/src/chunk_type.rs) and Chunk          *)
(* (src/src/chunk.rs).                                                     *)
(*                                                                         *)
(* Bytes are naturals 0..255.  A u32 is kept as a record [hi, lo] of two   *)
(* 16-bit halves (value = hi * 65536 + lo), because the model checker's    *)
(* integers are 32-bit signed and cannot hold 2^32 - 1.  A usize obtained  *)
(* from a u32 with `as usize` keeps the same representation.               *)
(*                                                                         *)
(* A Rust Result is a record: [tag |-> "Ok", val |-> v],                   *)
(* [tag |-> "Err", err |-> e]; a panic (process abort by unwinding) of the *)
(* called function is [tag |-> "Panic", at |-> place].                     *)
(***************************************************************************)
EXTENDS Integers, Sequences, FiniteSets, TLC

VARIABLES
    pc,            \* position of the driver: which call was made last
    value,         \* the argument of the TryFrom call ([u8; 4] or &[u8])
    type_result,   \* Result<ChunkType, &'static str> of ChunkType::try_from
    chunk,         \* the Chunk built by Chunk::new
    bytes,         \* the Vec<u8> returned by Chunk::as_bytes
    result,        \* Result<Chunk, ChunkError> of Chunk::try_from
    stream,        \* a buffer holding several serialized chunks
    chunks,        \* the chunks the stream was serialized from
    offset,        \* the walker's offset into the stream
    walked,        \* the results of the walker's parse calls so far
    text,          \* a &str / String: the sequence of its chars (code points)
    str_result     \* Result<ChunkType, &'static str> of ChunkType::from_str

vars == <<pc, value, type_result, chunk, bytes, result, stream, chunks, offset, walked,
          text, str_result>>

(***************************************************************************)
(* Bounds of the model                                                     *)
(***************************************************************************)
MaxDataLen == 2
MaxTrailing == 1
MaxChunks == 2
MaxWalkDataLen == 1
MaxStrLen == 5

None == [tag |-> "None"]

Ok(v) == [tag |-> "Ok", val |-> v]

Err(e) == [tag |-> "Err", err |-> e]

Panic(place) == [tag |-> "Panic", at |-> place]

(***************************************************************************)
(* Machine arithmetic                                                      *)
(***************************************************************************)
RECURSIVE BitAnd(_, _)
BitAnd(a, b) ==
    IF a = 0 \/ b = 0 THEN 0
    ELSE (a % 2) * (b % 2) + 2 * BitAnd(a \div 2, b \div 2)

RECURSIVE BitXor(_, _)
BitXor(a, b) ==
    IF a = 0 THEN b
    ELSE IF b = 0 THEN a
    ELSE ((a + b) % 2) + 2 * BitXor(a \div 2, b \div 2)

RECURSIVE Shl(_, _)
Shl(a, n) == IF n = 0 THEN a ELSE Shl(2 * a, n - 1)

U32(hi, lo) == [hi |-> hi, lo |-> lo]

\* n as u32, for a natural n below 2^31
NatAsU32(n) == U32(n \div 65536, n % 65536)

\* u32::to_be_bytes
to_be_bytes(u) == <<u.hi \div 256, u.hi % 256, u.lo \div 256, u.lo % 256>>

\* u32::from_be_bytes
from_be_bytes(b) == U32(b[1] * 256 + b[2], b[3] * 256 + b[4])

\* mid > len, for a usize mid that came from a u32 and a buffer length len
UsizeGt(mid, len) == mid.hi > 0 \/ mid.lo > len

(***************************************************************************)
(* crc32fast::hash: CRC-32 (IEEE 802.3), reflected, polynomial 0xEDB88320, *)
(* initial value and final xor 0xFFFFFFFF.                                 *)
(***************************************************************************)
PolyHi == 60856

PolyLo == 33568

\* one bit of the shift register: shift right, xor the polynomial on carry
CrcShift(c) ==
    LET shifted == U32(c.hi \div 2, (c.lo \div 2) + (c.hi % 2) * 32768)
    IN  IF c.lo % 2 = 1
        THEN U32(BitXor(shifted.hi, PolyHi), BitXor(shifted.lo, PolyLo))
        ELSE shifted

\* the 256-entry table of the byte-wise algorithm: 8 shifts of each byte
CrcTable ==
    [i \in 0..255 |->
        CrcShift(CrcShift(CrcShift(CrcShift(
            CrcShift(CrcShift(CrcShift(CrcShift(U32(0, i)))))))))]

\* crc = table[(crc ^ b) & 0xFF] ^ (crc >> 8)
CrcByte(c, b) ==
    LET t == CrcTable[BitXor(c.lo % 256, b)]
    IN  U32(BitXor(t.hi, c.hi \div 256),
            BitXor(t.lo, (c.lo \div 256) + (c.hi % 256) * 256))

RECURSIVE CrcUpdate(_, _, _)
CrcUpdate(c, s, k) ==
    IF k > Len(s) THEN c ELSE CrcUpdate(CrcByte(c, s[k]), s, k + 1)

Crc32Hash(s) ==
    LET c == CrcUpdate(U32(65535, 65535), s, 1)
    IN  U32(65535 - c.hi, 65535 - c.lo)

(***************************************************************************)
(* ChunkType (chunk_type.rs)                                               *)
(***************************************************************************)
\* the one error string of ChunkType::try_from (chunk_type.rs:121-125), by its last line
InvalidByteMsg == "Number outside of valid range, check PNG documentation to see valid range"

\* the mutant of IsRejectedByte: the gap between 'Z' and 'a' is accepted
IsRejectedByteNoGap(i) == i < 65 \/ i > 122

\* chunk_type.rs:119, the test applied to each byte of the tag
IsRejectedByte(i) == i < 65 \/ (i >= 91 /\ i <= 96) \/ i > 122

AncillaryBit(b) == IF BitAnd(b[1], Shl(1, 5)) = 0 THEN "Critical" ELSE "Ancillary"

\* the mutant of PrivateBit: the polarity of the conventional PNG meaning
PrivateBitSwapped(b) == IF BitAnd(b[2], Shl(1, 5)) = 0 THEN "Public" ELSE "Private"

PrivateBit(b) == IF BitAnd(b[2], Shl(1, 5)) = 0 THEN "Private" ELSE "Public"

ReservedBit(b) == IF BitAnd(b[3], Shl(1, 5)) = 0 THEN "Reserved" ELSE "NotReserved"

SafeToCopyBit(b) == IF BitAnd(b[4], Shl(1, 5)) = 0 THEN "UnsafeToCopy" ELSE "SafeToCopy"

\* impl TryFrom<[u8; 4]> for ChunkType; `u8 as char` gives the code point
ChunkTypeTryFrom(b) ==
    IF \E k \in 1..4 : IsRejectedByte(b[k])
    THEN Err(InvalidByteMsg)
    ELSE Ok([string_value |-> <<b[1], b[2], b[3], b[4]>>,
             numeric_value |-> b,
             ancillary_bit |-> AncillaryBit(b),
             private_bit |-> PrivateBit(b),
             reserved_bit |-> ReservedBit(b),
             safe_to_copy_bit |-> SafeToCopyBit(b)])

type_bytes(t) == t.numeric_value

is_critical(t) == t.ancillary_bit = "Critical"

is_public(t) == t.private_bit = "Private"

is_reserved_bit_valid(t) == t.reserved_bit = "Reserved"

is_safe_to_copy(t) == t.safe_to_copy_bit = "SafeToCopy"

is_valid(t) == is_reserved_bit_valid(t)

\* ChunkType::to_string: the four chars of string_value collected into a String
to_string(t) == <<t.string_value[1], t.string_value[2], t.string_value[3], t.string_value[4]>>

WrongLengthMsg == "A chunk must have 4 chars"

\* the UTF-8 encoding of one char
Utf8Char(c) ==
    IF c < 128 THEN <<c>>
    ELSE IF c < 2048 THEN <<192 + (c \div 64), 128 + (c % 64)>>
    ELSE IF c < 65536
         THEN <<224 + (c \div 4096), 128 + ((c \div 64) % 64), 128 + (c % 64)>>
         ELSE <<240 + (c \div 262144), 128 + ((c \div 4096) % 64),
                128 + ((c \div 64) % 64), 128 + (c % 64)>>

\* str::as_bytes: the UTF-8 bytes of the string
RECURSIVE str_as_bytes(_)
str_as_bytes(s) == IF s = <<>> THEN <<>> ELSE Utf8Char(Head(s)) \o str_as_bytes(Tail(s))

\* the mutant of str_len: the number of chars, s.chars().count()
str_chars_count(s) == Len(s)

\* str::len: the length in bytes
str_len(s) == Len(str_as_bytes(s))

\* the mutant of ChunkTypeFromStr: the last index is written 2 for 3
ChunkTypeFromStrIndexSlip(s) ==
    IF str_len(s) # 4
    THEN Err(WrongLengthMsg)
    ELSE LET numeric_value == str_as_bytes(s)
         IN  ChunkTypeTryFrom(<<numeric_value[1], numeric_value[2],
                                numeric_value[3], numeric_value[3]>>)

\* impl FromStr for ChunkType
ChunkTypeFromStr(s) ==
    IF str_len(s) # 4
    THEN Err(WrongLengthMsg)
    ELSE LET numeric_value == str_as_bytes(s)
         IN  ChunkTypeTryFrom(<<numeric_value[1], numeric_value[2],
                                numeric_value[3], numeric_value[4]>>)

(***************************************************************************)
(* Chunk (chunk.rs)                                                        *)
(***************************************************************************)
DATA_TYPE_BYTES == 4

CRC_BYTES == 4

DATA_LENGTH_BYTES == 4

META_DATA_BYTES == DATA_TYPE_BYTES + CRC_BYTES + DATA_LENGTH_BYTES

DataSampleSmall(n) == [kind |-> "DataSampleSmall", len |-> n]

ParsingDataLength == [kind |-> "ParsingDataLength"]

ParsingDataType == [kind |-> "ParsingDataType"]

ParsingChunkType(e) == [kind |-> "ParsingChunkType", inner |-> e]

ParsingCrc == [kind |-> "ParsingCrc"]

CrcNotMatching(a, b) == [kind |-> "CrcNotMatching", args |-> <<a, b>>]

\* Chunk::new
ChunkNew(chunk_type, data) == [chunk_type |-> chunk_type, data |-> data]

\* Chunk::length, `self.data.len() as u32`; data stays far below 2^31 bytes here
length(c) == NatAsU32(Len(c.data))

\* the mutant of crc: the type bytes are left out of the checksum
crc_data_only(c) == Crc32Hash(c.data)

\* Chunk::crc
crc(c) == Crc32Hash(type_bytes(c.chunk_type) \o c.data)

\* the mutant of as_bytes: the length is written little-endian
as_bytes_le(c) ==
    LET be == to_be_bytes(NatAsU32(Len(c.data)))
    IN  <<be[4], be[3], be[2], be[1]>> \o type_bytes(c.chunk_type) \o c.data
            \o to_be_bytes(crc(c))

\* Chunk::as_bytes
as_bytes(c) ==
    to_be_bytes(NatAsU32(Len(c.data))) \o type_bytes(c.chunk_type) \o c.data
        \o to_be_bytes(crc(c))

\* slice::split_at(mid) panics when mid > len; otherwise ([0, mid), [mid, len))
SplitAt(s, mid) == <<SubSeq(s, 1, mid), SubSeq(s, mid + 1, Len(s))>>

\* <[u8; 4]>::try_from(&[u8]): fails unless the slice holds exactly 4 bytes
TryInto4(s) == IF Len(s) = 4 THEN Ok(s) ELSE Err("TryFromSliceError")

\* the mutant of TooSmall: a frame of exactly META_DATA_BYTES is refused
TooSmallInclusive(v) == Len(v) <= META_DATA_BYTES

\* chunk.rs:75
TooSmall(v) == Len(v) < META_DATA_BYTES

\* the mutant of ParseChunkType: the reserved-bit rule is enforced while parsing
ParseChunkTypeEnforcing(arr) ==
    LET r == ChunkTypeTryFrom(arr)
    IN  IF r.tag = "Err" THEN Err(ParsingChunkType(r.err))
        ELSE IF ~is_valid(r.val) THEN Err(ParsingChunkType("invalid chunk type"))
        ELSE r

\* chunk.rs:91-94
ParseChunkType(arr) ==
    LET r == ChunkTypeTryFrom(arr)
    IN  IF r.tag = "Err" THEN Err(ParsingChunkType(r.err)) ELSE r

\* the mutant of TakeCrc: everything after the data is taken as the checksum
TakeCrcRest(s) == s

\* chunk.rs:98, `let (crc, _) = value.split_at(CRC_BYTES)`
TakeCrc(s) == SplitAt(s, CRC_BYTES)[1]

\* the mutant of VerifyCrc: the two values of CrcNotMatching change places
VerifyCrcSwapped(crc_parsed, c) ==
    LET crc_from_chunk == crc(c)
    IN  IF crc_from_chunk # crc_parsed
        THEN Err(CrcNotMatching(crc_from_chunk, crc_parsed))
        ELSE Ok(c)

\* chunk.rs:110-116
VerifyCrc(crc_parsed, c) ==
    LET crc_from_chunk == crc(c)
    IN  IF crc_from_chunk # crc_parsed
        THEN Err(CrcNotMatching(crc_parsed, crc_from_chunk))
        ELSE Ok(c)

\* chunk.rs:96-116, after the type tag was accepted
ParseBody(data_length, chunk_type, rest) ==
    IF UsizeGt(data_length, Len(rest))
    THEN Panic("split_at(data_length)")
    ELSE LET s3 == SplitAt(rest, data_length.lo)
         IN  IF CRC_BYTES > Len(s3[2])
             THEN Panic("split_at(CRC_BYTES)")
             ELSE LET crc_arr == TryInto4(TakeCrc(s3[2]))
                  IN  IF crc_arr.tag = "Err"
                      THEN Err(ParsingCrc)
                      ELSE VerifyCrc(from_be_bytes(crc_arr.val),
                                     [chunk_type |-> chunk_type, data |-> s3[1]])

\* impl TryFrom<&[u8]> for Chunk
ChunkTryFrom(v) ==
    IF TooSmall(v)
    THEN Err(DataSampleSmall(Len(v)))
    ELSE LET s1 == SplitAt(v, DATA_LENGTH_BYTES)
             len_arr == TryInto4(s1[1])
         IN  IF len_arr.tag = "Err"
             THEN Err(ParsingDataLength)
             ELSE LET s2 == SplitAt(s1[2], DATA_TYPE_BYTES)
                      type_arr == TryInto4(s2[1])
                  IN  IF type_arr.tag = "Err"
                      THEN Err(ParsingDataType)
                      ELSE LET t == ParseChunkType(type_arr.val)
                           IN  IF t.tag = "Err"
                               THEN t
                               ELSE ParseBody(from_be_bytes(len_arr.val), t.val, s2[2])

(***************************************************************************)
(* Inputs                                                                  *)
(***************************************************************************)
\* bytes around the two accepted ranges 0x41..0x5A and 0x61..0x7A
TypeByteSamples == {0, 64, 65, 90, 91, 96, 97, 122, 123, 255}

\* "RuSt", "ruSt", "RUSt", "Rust", "RuST": the tags of the unit tests
TestTags == {<<82, 117, 83, 116>>, <<114, 117, 83, 116>>, <<82, 85, 83, 116>>,
             <<82, 117, 115, 116>>, <<82, 117, 83, 84>>}

TypeInputs ==
    {<<a, b, c, d>> : a \in TypeByteSamples, b \in TypeByteSamples,
                      c \in TypeByteSamples, d \in TypeByteSamples} \cup TestTags

SeqsUpTo(S, n) == UNION {[1..k -> S] : k \in 0..n}

\* chars of 1, 2, 3 and 4 UTF-8 bytes: 'R', 'u', 't', '1', U+00E9, U+20AC, U+1F600
CharSamples == {82, 117, 116, 49, 233, 8364, 128512}

StrInputs == SeqsUpTo(CharSamples, MaxStrLen) \cup TestTags

DataBytes == {0, 255}

\* "RuSt", "Rust" (reserved bit set), "ruST"
LetterTags == {<<82, 117, 83, 116>>, <<82, 117, 115, 116>>, <<114, 117, 83, 84>>}

\* "Ru1t" and "R[St": one byte that is no ASCII letter
BadTags == {<<82, 117, 49, 116>>, <<82, 91, 83, 116>>}

\* length fields: every length the data can have, one more, and values whose
\* big-endian reading is large
LenFields ==
    {to_be_bytes(NatAsU32(n)) : n \in 0..(MaxDataLen + 1)}
        \cup {<<0, 0, 1, 0>>, <<1, 0, 0, 0>>, <<255, 255, 255, 255>>}

U32Succ(u) ==
    IF u.lo < 65535 THEN U32(u.hi, u.lo + 1)
    ELSE IF u.hi < 65535 THEN U32(u.hi + 1, 0) ELSE U32(0, 0)

\* checksum fields for a frame: the right one, the right one plus 1, zero
CrcFields(t, d) ==
    LET right == Crc32Hash(t \o d)
    IN  {to_be_bytes(right), to_be_bytes(U32Succ(right)), <<0, 0, 0, 0>>}

Frames ==
    UNION { UNION { {l \o t \o d \o c \o x :
                        l \in LenFields, c \in CrcFields(t, d),
                        x \in SeqsUpTo(DataBytes, MaxTrailing)}
                    : d \in SeqsUpTo(DataBytes, MaxDataLen)}
            : t \in LetterTags \cup BadTags}

\* every frame and every prefix of a frame
RawInputs == UNION { {SubSeq(f, 1, k) : k \in 0..Len(f)} : f \in Frames }

ChunkArgs(n) ==
    {ChunkNew(ChunkTypeTryFrom(t).val, d) : t \in LetterTags, d \in SeqsUpTo(DataBytes, n)}

RECURSIVE Serialized(_)
Serialized(cs) == IF cs = <<>> THEN <<>> ELSE as_bytes(Head(cs)) \o Serialized(Tail(cs))

(***************************************************************************)
(* ChunkType::try_from on its own                                          *)
(***************************************************************************)
Idle ==
    /\ type_result = None /\ chunk = None /\ bytes = <<>> /\ result = None
    /\ stream = <<>> /\ chunks = <<>> /\ offset = 0 /\ walked = <<>>
    /\ str_result = None

InitType ==
    /\ \/ pc = "type_input" /\ value \in TypeInputs /\ text = <<>>
       \/ pc = "str_input" /\ value = <<>> /\ text \in StrInputs
    /\ Idle

TypeTryFrom ==
    /\ pc = "type_input"
    /\ type_result' = ChunkTypeTryFrom(value)
    /\ pc' = "type_done"
    /\ UNCHANGED <<value, chunk, bytes, result, stream, chunks, offset, walked, text, str_result>>

\* ChunkType::from_str(text)
FromStr ==
    /\ pc = "str_input"
    /\ str_result' = ChunkTypeFromStr(text)
    /\ pc' = "str_done"
    /\ UNCHANGED <<value, type_result, chunk, bytes, result, stream, chunks, offset, walked,
                   text>>

\* t.to_string() of a constructed chunk type
TypeToString ==
    /\ pc = "type_done"
    /\ type_result.tag = "Ok"
    /\ text' = to_string(type_result.val)
    /\ pc' = "to_string"
    /\ UNCHANGED <<value, type_result, chunk, bytes, result, stream, chunks, offset, walked,
                   str_result>>

\* ChunkType::from_str(&t.to_string())
FromStrOfToString ==
    /\ pc = "to_string"
    /\ str_result' = ChunkTypeFromStr(text)
    /\ pc' = "str_round_trip"
    /\ UNCHANGED <<value, type_result, chunk, bytes, result, stream, chunks, offset, walked,
                   text>>

NextType == TypeTryFrom \/ FromStr \/ TypeToString \/ FromStrOfToString

SpecType == InitType /\ [][NextType]_vars

(***************************************************************************)
(* Chunk: new, as_bytes, try_from                                          *)
(***************************************************************************)
Init ==
    /\ \/ pc = "start" /\ value = <<>>
       \/ pc = "raw" /\ value \in RawInputs
    /\ text = <<>>
    /\ Idle

New ==
    /\ pc = "start"
    /\ \E c \in ChunkArgs(MaxDataLen) : chunk' = c
    /\ pc' = "new"
    /\ UNCHANGED <<value, type_result, bytes, result, stream, chunks, offset, walked, text, str_result>>

AsBytes ==
    /\ pc = "new"
    /\ bytes' = as_bytes(chunk)
    /\ pc' = "as_bytes"
    /\ UNCHANGED <<value, type_result, chunk, result, stream, chunks, offset, walked, text, str_result>>

\* Chunk::try_from(chunk.as_bytes().as_ref())
TryFromAsBytes ==
    /\ pc = "as_bytes"
    /\ value' = bytes
    /\ result' = ChunkTryFrom(bytes)
    /\ pc' = "round_trip"
    /\ UNCHANGED <<type_result, chunk, bytes, stream, chunks, offset, walked, text, str_result>>

\* Chunk::try_from(value) on a buffer from outside
TryFrom ==
    /\ pc = "raw"
    /\ result' = ChunkTryFrom(value)
    /\ pc' = "parsed"
    /\ UNCHANGED <<value, type_result, chunk, bytes, stream, chunks, offset, walked, text, str_result>>

Next == New \/ AsBytes \/ TryFromAsBytes \/ TryFrom

Spec == Init /\ [][Next]_vars

(***************************************************************************)
(* A caller walking a stream of chunks: parse at the offset, then advance  *)
(* by META_DATA_BYTES + length()                                           *)
(***************************************************************************)
ChunkLists == SeqsUpTo(ChunkArgs(MaxWalkDataLen), MaxChunks)

InitWalk ==
    /\ pc = "walk"
    /\ chunks \in ChunkLists
    /\ stream = Serialized(chunks)
    /\ offset = 0 /\ walked = <<>>
    /\ value = <<>> /\ type_result = None /\ chunk = None /\ bytes = <<>> /\ result = None
    /\ text = <<>> /\ str_result = None

WalkStep ==
    /\ pc = "walk"
    /\ offset < Len(stream)
    /\ LET r == ChunkTryFrom(SubSeq(stream, offset + 1, Len(stream)))
       IN  /\ walked' = Append(walked, r)
           /\ IF r.tag = "Ok"
              THEN /\ offset' = offset + META_DATA_BYTES + length(r.val).lo
                   /\ pc' = "walk"
              ELSE /\ offset' = offset
                   /\ pc' = "walk_failed"
    /\ UNCHANGED <<value, type_result, chunk, bytes, result, stream, chunks, text, str_result>>

NextWalk == WalkStep

SpecWalk == InitWalk /\ [][NextWalk]_vars

(***************************************************************************)
(* Properties                                                              *)
(***************************************************************************)
IsAsciiLetter(b) == (b >= 65 /\ b <= 90) \/ (b >= 97 /\ b <= 122)

Bit5Clear(b) == (b \div 32) % 2 = 0

\* the 4 bytes of s from index i, read as a big-endian number
BigEndianAt(s, i) == U32(s[i] * 256 + s[i + 1], s[i + 2] * 256 + s[i + 3])

\* the fields of a buffer, by position
DeclaredLen(v) == BigEndianAt(v, 1)

TagField(v) == SubSeq(v, 5, 8)

HasLetterTag(v) == \A k \in 5..8 : IsAsciiLetter(v[k])

DataFits(v) == DeclaredLen(v).hi = 0 /\ DeclaredLen(v).lo <= Len(v) - 8

ChecksumFits(v) == DeclaredLen(v).hi = 0 /\ DeclaredLen(v).lo <= Len(v) - 12

DataField(v) == SubSeq(v, 9, 8 + DeclaredLen(v).lo)

StoredChecksum(v) == BigEndianAt(v, 9 + DeclaredLen(v).lo)

ComputedChecksum(v) == Crc32Hash(TagField(v) \o DataField(v))

\* C1: parsing the serialization of Chunk::new(t, d) succeeds and gives a
\* chunk with the same type bytes, the same data and the same checksum
C1_RoundTrip ==
    pc = "round_trip" =>
        /\ result.tag = "Ok"
        /\ type_bytes(result.val.chunk_type) = type_bytes(chunk.chunk_type)
        /\ result.val.data = chunk.data
        /\ crc(result.val) = crc(chunk)

C1_Witness ==
    /\ pc = "round_trip"
    /\ Len(chunk.data) > 0
    /\ result.tag = "Ok"
    /\ result.val.data = chunk.data

\* C2: on a buffer with well-formed length, type and data fields followed by
\* 4 checksum bytes, parse returns the chunk iff the stored big-endian checksum
\* equals the one computed over type ++ data, and otherwise fails with
\* CrcNotMatching(stored, computed)
C2_ChecksumDecides ==
    (pc = "parsed" /\ Len(value) >= 12 /\ HasLetterTag(value) /\ ChecksumFits(value)) =>
        IF StoredChecksum(value) = ComputedChecksum(value)
        THEN /\ result.tag = "Ok"
             /\ type_bytes(result.val.chunk_type) = TagField(value)
             /\ result.val.data = DataField(value)
        ELSE result = Err(CrcNotMatching(StoredChecksum(value), ComputedChecksum(value)))

\* a frame whose stored checksum is the right one plus 1
C2_Witness ==
    /\ pc = "parsed" /\ Len(value) >= 12 /\ HasLetterTag(value) /\ ChecksumFits(value)
    /\ StoredChecksum(value) = U32Succ(ComputedChecksum(value))
    /\ result.tag = "Err"
    /\ result.err.kind = "CrcNotMatching"

\* C3: when the declared length exceeds the bytes after the 8-byte header,
\* parse returns an error value
C3_TruncatedDataIsAnError ==
    (pc = "parsed" /\ Len(value) >= 12 /\ HasLetterTag(value) /\ ~DataFits(value)) =>
        result.tag = "Err"

\* C4: when the data fits but fewer than 4 bytes follow it, parse returns the
\* ParsingCrc error value
C4_ShortChecksumIsAnError ==
    (pc = "parsed" /\ Len(value) >= 12 /\ HasLetterTag(value)
        /\ DataFits(value) /\ ~ChecksumFits(value)) =>
        result = Err(ParsingCrc)

\* C5: a buffer shorter than 12 bytes fails with DataSampleSmall(its length);
\* a 12-byte buffer with length 0, a letter tag and the checksum of the tag
\* alone parses to a chunk with length() = 0 and no data
C5_MinimumFrame ==
    pc = "parsed" =>
        /\ Len(value) < 12 => result = Err(DataSampleSmall(Len(value)))
        /\ (Len(value) = 12 /\ SubSeq(value, 1, 4) = <<0, 0, 0, 0>> /\ HasLetterTag(value)
              /\ BigEndianAt(value, 9) = Crc32Hash(TagField(value))) =>
               /\ result.tag = "Ok"
               /\ result.val.data = <<>>
               /\ length(result.val) = U32(0, 0)

C5_Witness ==
    /\ pc = "parsed"
    /\ Len(value) = 11
    /\ result = Err(DataSampleSmall(11))

RECURSIVE EncodedSize(_)
EncodedSize(cs) == IF cs = <<>> THEN 0 ELSE 12 + Len(Head(cs).data) + EncodedSize(Tail(cs))

\* C6: walking the concatenation of the serializations of c1..ck yields
\* c1..ck in order, each step landing on the next chunk's first byte, and ends
\* at the end of the buffer
C6_WalkYieldsChunks ==
    /\ pc # "walk_failed"
    /\ Len(walked) <= Len(chunks)
    /\ \A i \in 1..Len(walked) : i <= Len(chunks) => walked[i] = Ok(chunks[i])
    /\ Len(walked) <= Len(chunks) => offset = EncodedSize(SubSeq(chunks, 1, Len(walked)))
    /\ (offset = Len(stream)) <=> (Len(walked) = Len(chunks))

C6_Witness ==
    /\ pc = "walk"
    /\ Len(chunks) >= 2
    /\ Len(chunks[1].data) > 0
    /\ Len(walked) = Len(chunks)
    /\ offset = Len(stream)

\* C7: as_bytes gives 12 + data.len() bytes: the data length big-endian, the
\* 4 type bytes, the data, the big-endian checksum of type ++ data
C7_Layout ==
    pc \in {"as_bytes", "round_trip"} =>
        LET n == Len(chunk.data)
        IN  /\ Len(bytes) = 12 + n
            /\ BigEndianAt(bytes, 1) = U32(0, n)
            /\ SubSeq(bytes, 5, 8) = chunk.chunk_type.numeric_value
            /\ SubSeq(bytes, 9, 8 + n) = chunk.data
            /\ BigEndianAt(bytes, 9 + n)
                   = Crc32Hash(chunk.chunk_type.numeric_value \o chunk.data)

C7_Witness ==
    /\ pc = "as_bytes"
    /\ Len(chunk.data) > 0
    /\ Len(bytes) = 12 + Len(chunk.data)

\* C8: ChunkType::try_from(b) succeeds iff every byte is in 0x41..0x5A or
\* 0x61..0x7A, fails with the invalid-byte error otherwise, and bytes() = b
C8_TypeFromBytes ==
    pc = "type_done" =>
        IF \A k \in 1..4 : IsAsciiLetter(value[k])
        THEN type_result.tag = "Ok" /\ type_bytes(type_result.val) = value
        ELSE type_result = Err(InvalidByteMsg)

\* a tag with one byte in the gap 0x5B..0x60 and three letters
C8_Witness ==
    /\ pc = "type_done"
    /\ value[2] = 91
    /\ \A k \in {1, 3, 4} : IsAsciiLetter(value[k])
    /\ type_result.tag = "Err"

\* C9: is_critical iff bit 5 of b[0] is clear, is_public iff bit 5 of b[1] is
\* clear, is_reserved_bit_valid iff bit 5 of b[2] is clear, is_safe_to_copy
\* iff bit 5 of b[3] is set, is_valid = is_reserved_bit_valid
C9_Flags ==
    (pc = "type_done" /\ type_result.tag = "Ok") =>
        LET t == type_result.val
        IN  /\ is_critical(t) <=> Bit5Clear(value[1])
            /\ is_public(t) <=> Bit5Clear(value[2])
            /\ is_reserved_bit_valid(t) <=> Bit5Clear(value[3])
            /\ is_safe_to_copy(t) <=> ~Bit5Clear(value[4])
            /\ is_valid(t) <=> is_reserved_bit_valid(t)
            /\ value = <<82, 85, 83, 116>> => is_public(t)
            /\ value = <<82, 117, 83, 116>> => ~is_public(t)

\* "RUSt" is public
C9_Witness ==
    /\ pc = "type_done"
    /\ value = <<82, 85, 83, 116>>
    /\ type_result.tag = "Ok"
    /\ is_public(type_result.val)
    /\ is_critical(type_result.val)
    /\ is_safe_to_copy(type_result.val)

\* C10: on a buffer of at least 12 bytes parse fails with ParsingChunkType
\* exactly when one of bytes 4..7 is no ASCII letter, whatever the declared
\* length; a letter tag with the reserved bit set is no reason to fail
C10_BadTypeFirst ==
    (pc = "parsed" /\ Len(value) >= 12) =>
        /\ (result = Err(ParsingChunkType(InvalidByteMsg))) <=> ~HasLetterTag(value)
        /\ (HasLetterTag(value) /\ ~Bit5Clear(value[7]) /\ ChecksumFits(value)
              /\ StoredChecksum(value) = ComputedChecksum(value)) =>
               /\ result.tag = "Ok"
               /\ ~is_valid(result.val.chunk_type)

\* a tag with a byte that is no letter, in front of a declared length larger
\* than the buffer
C10_Witness ==
    /\ pc = "parsed" /\ Len(value) >= 12
    /\ ~HasLetterTag(value)
    /\ ~DataFits(value)
    /\ result.tag = "Err"
    /\ result.err.kind = "ParsingChunkType"

\* the number of bytes a char takes in UTF-8
Utf8Width(c) == IF c < 128 THEN 1 ELSE IF c < 2048 THEN 2 ELSE IF c < 65536 THEN 3 ELSE 4

RECURSIVE ByteLength(_)
ByteLength(s) == IF s = <<>> THEN 0 ELSE Utf8Width(Head(s)) + ByteLength(Tail(s))

C12_TextRoundTrip ==
    /\ (pc = "str_done" /\ Len(text) = 4 /\ \A k \in 1..4 : IsAsciiLetter(text[k])) =>
           /\ str_result.tag = "Ok"
           /\ str_result = ChunkTypeTryFrom(text)
           /\ to_string(str_result.val) = text
    /\ pc = "str_round_trip" =>
           /\ type_result.tag = "Ok"
           /\ text = value
           /\ str_result = type_result

\* "RuSt" read from text, with its case kept
C12_Witness ==
    /\ pc = "str_done"
    /\ text = <<82, 117, 83, 116>>
    /\ str_result.tag = "Ok"
    /\ to_string(str_result.val) = <<82, 117, 83, 116>>

====
